---- MODULE Spec2Model ----
(***************************************************************************)
(* A model of the three map functions of aguacate_mapas.py,                *)
(* plot_mapa_estatal, plot_mapa_municipal and mapa_exportaciones, and of   *)
(* top_exportaciones, the bar chart of aguacate_graficas.py: their         *)
(* pandas aggregation, the logarithmic colour scale, the join of the       *)
(* aggregated records onto the GeoJSON catalogue, and the files written,   *)
(* read back and removed while the images are composed.                    *)
(*                                                                         *)
(* Numbers.  Python floats are modelled in fixed point:                    *)
(*   - a value in log10 space is a count of hundredths of a decade;        *)
(*     np.log10 truncates to a tenth of a decade, so that the ten steps    *)
(*     of np.linspace are exact;                                           *)
(*   - a value in linear space (10 ** item) is a count of tenths;          *)
(*   - -inf and nan, which np.log10 and the reductions of an empty column  *)
(*     produce, are values of their own.                                   *)
(***************************************************************************)
EXTENDS Integers, Sequences, FiniteSets, TLC

VARIABLES
    fn,                 \* the function that was called
    anio,               \* its parameter año
    pc,                 \* the statement about to run ("done", "error": ended)
    df,                 \* the DataFrame df, a sequence of rows
    df_antes,           \* the rows df held before fillna or groupby replaced
                        \* them, until the statement after it has run; then
                        \* the records df held before the index was renamed
    subtitulo,          \* the totals the subtitle is formatted from
    min_val, max_val,   \* the bounds of the scale
    marcas,             \* the tick positions (log10 space)
    etiquetas,          \* the tick labels
    i_marca,            \* ticks consumed by "for item in marcas"
    valor_original,     \* 10 ** item of the current tick
    geojson,            \* the features of the loaded catalogue
    ubicaciones,        \* locations handed to the Choropleth
    valores,            \* z values handed to the Choropleth
    geojson_borde,      \* the features of the catalogue of the outline layer
    ubicaciones_borde,  \* locations of the outline layer
    valores_borde,      \* z values of the outline layer
    fs,                 \* the files of the working directory
    image1, image2,     \* the images opened from ./0.png and ./1.png
    result,             \* the composed image
    ausente,            \* the column the CSV file lacks (NULL: it lacks none)
    excepcion,          \* the exception that ended the call (NULL: none)
    fig,                \* the traces added to the figure
    trabajadores        \* the calls of plot_mapa_estatal that run at the same
                        \* time in one directory, one per year: the statement
                        \* each is about to run and its images

vars == <<fn, anio, pc, df, df_antes, subtitulo, min_val, max_val, marcas, etiquetas,
          i_marca, valor_original, geojson, ubicaciones, valores,
          geojson_borde, ubicaciones_borde, valores_borde, fs, image1, image2, result,
          ausente, excepcion, fig, trabajadores>>

-----------------------------------------------------------------------------
(* Bounds of the model.                                                    *)

\* rows of a CSV file
MaxRows == 3
\* features of a GeoJSON catalogue
MaxFeatures == 3
\* features of the catalogue of the outline layer
MaxFeaturesBorde == 2
\* rows of a CSV file that lacks a column
MaxRowsIncompletas == 1

-----------------------------------------------------------------------------
(* Values.                                                                 *)

\* a finite float
Fin(x) == [k |-> "fin", v |-> x]
\* float("-inf"): np.log10(0)
NegInf == [k |-> "-inf"]
\* float("inf")
PosInf == [k |-> "inf"]
\* float("nan")
NaN == [k |-> "nan"]
\* Python's None
None == [k |-> "None"]
\* a pandas Series: what .loc returns for a label the index repeats
Series(s) == [k |-> "Series", s |-> s]
\* a missing cell of a CSV column (NaN in an object column)
NULL == "<NA>"

IsFin(x) == x.k = "fin"

\* x <= y on floats that are not nan
FloatLeq(x, y) ==
    \/ x.k = "-inf"
    \/ y.k = "inf"
    \/ IsFin(x) /\ IsFin(y) /\ x.v <= y.v

Max2(a, b) == IF a >= b THEN a ELSE b

RECURSIVE SeqSum(_)
SeqSum(s) == IF s = <<>> THEN 0 ELSE Head(s) + SeqSum(Tail(s))

RECURSIVE SeqMax(_)
SeqMax(s) == IF Len(s) = 1 THEN Head(s) ELSE Max2(Head(s), SeqMax(Tail(s)))

Column(rows, col) == [i \in 1..Len(rows) |-> rows[i][col]]

RECURSIVE Pow(_, _)
Pow(b, n) == IF n = 0 THEN 1 ELSE b * Pow(b, n - 1)

\* sequences over S of length at most n
SeqsUpTo(S, n) == UNION {[1..m -> S] : m \in 0..n}

-----------------------------------------------------------------------------
(* Floats: np.log10, 10 ** x, the reductions of a column, np.linspace.     *)

\* hundredths of a decade in one decade
Decada == 100
\* the resolution np.log10 is computed to, in hundredths of a decade
PasoLog == 10
\* tenths in one unit of linear space
Decimas == 10

\* 1000 * 10 ** (k / 100), truncated, for k = 0 .. 99
Mantisa == <<
    1000, 1023, 1047, 1071, 1096, 1122, 1148, 1174, 1202, 1230,
    1258, 1288, 1318, 1348, 1380, 1412, 1445, 1479, 1513, 1548,
    1584, 1621, 1659, 1698, 1737, 1778, 1819, 1862, 1905, 1949,
    1995, 2041, 2089, 2137, 2187, 2238, 2290, 2344, 2398, 2454,
    2511, 2570, 2630, 2691, 2754, 2818, 2884, 2951, 3019, 3090,
    3162, 3235, 3311, 3388, 3467, 3548, 3630, 3715, 3801, 3890,
    3981, 4073, 4168, 4265, 4365, 4466, 4570, 4677, 4786, 4897,
    5011, 5128, 5248, 5370, 5495, 5623, 5754, 5888, 6025, 6165,
    6309, 6456, 6606, 6760, 6918, 7079, 7244, 7413, 7585, 7762,
    7943, 8128, 8317, 8511, 8709, 8912, 9120, 9332, 9549, 9772>>

RECURSIVE Digitos(_)
\* the number of decimal digits of n >= 0
Digitos(n) == IF n < 10 THEN 1 ELSE 1 + Digitos(n \div 10)

\* whether 10 ** ((100 * e + k) / 100) <= v
Pow10Leq(e, k, v) ==
    IF e >= 3 THEN Mantisa[k + 1] * Pow(10, e - 3) <= v
    ELSE Mantisa[k + 1] <= v * Pow(10, 3 - e)

\* log10 of an integer v >= 1, in hundredths of a decade
Log10Fx(v) ==
    LET e == Digitos(v) - 1
        ks == {k \in {PasoLog * n : n \in 0..((Decada - 1) \div PasoLog)} :
                    Pow10Leq(e, k, v)}
    IN  Decada * e + (CHOOSE k \in ks : \A j \in ks : j <= k)

\* np.log10(v) of a number v >= 0
Log10(v) == IF v = 0 THEN NegInf ELSE Fin(Log10Fx(v))

\* 10 ** (t / 100) in tenths, t >= 0 hundredths of a decade
Pow10Fx(t) ==
    LET e == t \div Decada
        m == Mantisa[(t % Decada) + 1]
    IN  IF e >= 2 THEN m * Pow(10, e - 2) ELSE m \div Pow(10, 2 - e)

\* 10 ** item
Pow10(item) ==
    CASE item.k = "fin" -> Fin(Pow10Fx(item.v))
      [] item.k = "-inf" -> Fin(0)
      [] item.k = "inf" -> PosInf
      [] OTHER -> NaN

NotNaN(x) == x.k # "nan"

\* Series.min(): nan is skipped, an empty column gives nan
ColMin(col) ==
    LET s == SelectSeq(col, NotNaN)
    IN  IF s = <<>> THEN NaN
        ELSE s[CHOOSE i \in 1..Len(s) : \A j \in 1..Len(s) : FloatLeq(s[i], s[j])]

\* Series.max(): nan is skipped, an empty column gives nan
ColMax(col) ==
    LET s == SelectSeq(col, NotNaN)
    IN  IF s = <<>> THEN NaN
        ELSE s[CHOOSE i \in 1..Len(s) : \A j \in 1..Len(s) : FloatLeq(s[j], s[i])]

\* np.arange-like ticks: the step is the whole interval, not a tenth of it
LinspaceSinDividir(start, stop, num) ==
    IF IsFin(start) /\ IsFin(stop)
    THEN [n \in 1..num |-> Fin(start.v + (n - 1) * (stop.v - start.v))]
    ELSE [n \in 1..num |-> NaN]

\* the ticks run from stop down to start
LinspaceAlReves(start, stop, num) ==
    IF IsFin(start) /\ IsFin(stop)
    THEN [n \in 1..num |->
            Fin(stop.v - ((n - 1) * (stop.v - start.v)) \div (num - 1))]
    ELSE [n \in 1..num |-> NaN]

\* an interval of one point gives that point once
LinspaceSinRepetir(start, stop, num) ==
    IF start = stop THEN <<start>>
    ELSE IF IsFin(start) /\ IsFin(stop)
    THEN [n \in 1..num |->
            Fin(start.v + ((n - 1) * (stop.v - start.v)) \div (num - 1))]
    ELSE [n \in 1..num |-> IF n = num THEN stop ELSE NaN]

\* np.linspace(start, stop, num), endpoint=True, num > 1
Linspace(start, stop, num) ==
    LET div == num - 1
    IN  IF IsFin(start) /\ IsFin(stop)
        THEN LET delta == stop.v - start.v
                 step == delta \div div
                 y(i) == IF step = 0 THEN (i * delta) \div div ELSE i * step
             IN  [n \in 1..num |->
                     IF n = num THEN stop ELSE Fin(y(n - 1) + start.v)]
        ELSE \* delta is inf or nan: every product and sum is nan
             [n \in 1..num |-> IF n = num THEN stop ELSE NaN]

-----------------------------------------------------------------------------
(* Format specifications: f"{x:,.0f}" and f"{x:,.1f}".                      *)

\* a / b rounded to the nearest integer, a tie to the even one (a, b >= 0)
RoundHalfEven(a, b) ==
    LET q == a \div b
        r == a % b
    IN  IF 2 * r < b THEN q
        ELSE IF 2 * r > b THEN q + 1
        ELSE IF q % 2 = 0 THEN q ELSE q + 1

\* three digits, zero padded
Pad3(m) ==
    IF m < 10 THEN "00" \o ToString(m)
    ELSE IF m < 100 THEN "0" \o ToString(m)
    ELSE ToString(m)

RECURSIVE Comas(_)
\* f"{n:,}": the digits of n >= 0 in groups of three
Comas(n) ==
    IF n < 1000 THEN ToString(n)
    ELSE Comas(n \div 1000) \o "," \o Pad3(n % 1000)

\* f"{x / d:,.0f}" for a float x of linear space
Fmt0(x, d) ==
    CASE x.k = "fin" -> Comas(RoundHalfEven(x.v, Decimas * d))
      [] x.k = "nan" -> "nan"
      [] OTHER -> "inf"

\* f"{x / d:,.1f}" for a float x of linear space
Fmt1(x, d) ==
    CASE x.k = "fin" ->
            LET n == RoundHalfEven(x.v, (Decimas * d) \div 10)
            IN  Comas(n \div 10) \o "." \o ToString(n % 10)
      [] x.k = "nan" -> "nan"
      [] OTHER -> "inf"

\* x >= c for a float x of linear space and an integer c: False on nan
FloatGeq(x, c) ==
    CASE x.k = "fin" -> x.v >= c * Decimas
      [] x.k = "inf" -> TRUE
      [] OTHER -> FALSE

\* the abbreviation with the quotient cut to an integer instead of rounded
EtiquetaTruncada(v) ==
    IF ~IsFin(v) THEN (IF v.k = "nan" THEN "nan" ELSE "infM")
    ELSE IF FloatGeq(v, 1000000)
         THEN Comas(v.v \div (Decimas * 1000000)) \o "."
              \o ToString((v.v \div (Decimas * 100000)) % 10) \o "M"
    ELSE IF FloatGeq(v, 1000) THEN Comas(v.v \div (Decimas * 1000)) \o "k"
    ELSE Comas(v.v \div Decimas)

\* the abbreviation of one tick: the if/elif/else of the label loop
Etiqueta(v) ==
    IF FloatGeq(v, 1000000) THEN Fmt1(v, 1000000) \o "M"
    ELSE IF FloatGeq(v, 1000) THEN Fmt0(v, 1000) \o "k"
    ELSE Fmt0(v, 1)

-----------------------------------------------------------------------------
(* The inputs: what pd.read_csv and json.loads may return.                 *)

\* the years the functions are called with
Anios == {2004, 2023}

\* Nomestado of ./data/siap_produccion.csv
Estados == {"Estado de México", "Jalisco", "México"}
\* NOMGEO of ./assets/mexico.json
NombresGeo == {"Colima", "Estado de México", "Jalisco"}
\* Idestado and Idmunicipio of ./data/siap_produccion.csv
IdsEstado == {14}
IdsMunicipio == {1, 20}
\* CVEGEO of ./assets/mexico2023.json
ClavesGeo == {"14001", "14020", "32001"}
\* PAIS_O_D of ./data/inegi_exportaciones.csv; the rows of the totals have none
Paises == {"CAN", "USA", NULL}
\* TIPO of ./data/inegi_exportaciones.csv
Tipos == {"Exportaciones", "Importaciones"}
\* Volumenproduccion (tons) and Valorproduccion (pesos)
Volumenes == {0, 8, 2000000}
ValoresProduccion == {3000000}
\* CANTIDAD (kilograms) and VAL_MNX (pesos)
Cantidades == {3, 5, 12}
ValoresMnx == {4, 7}

\* the index values in the order groupby sorts them (str comparison)
OrdenIndice == <<"14001", "14020", "CAN", "Estado de México", "Jalisco",
                 "México", "TOTAL", "USA">>

\* The rows of 2023 take every combination of the other columns; one row
\* stands for those of 2004, and one for the imports. Among the exports of
\* 2023 the greater VAL_MNX comes with one CANTIDAD only, not the greatest.

FilasEstatal ==
    {r \in [Anio : Anios, Nomestado : Estados,
            Volumenproduccion : Volumenes, Valorproduccion : ValoresProduccion] :
        r.Anio = 2004 => r.Nomestado = "Jalisco" /\ r.Volumenproduccion = 8}

FilasMunicipal ==
    {r \in [Anio : Anios, Idestado : IdsEstado, Idmunicipio : IdsMunicipio,
            Volumenproduccion : Volumenes, Valorproduccion : ValoresProduccion] :
        r.Anio = 2004 => r.Idmunicipio = 20 /\ r.Volumenproduccion = 8}

FilasExportaciones ==
    {r \in [ANIO : Anios, TIPO : Tipos, PAIS_O_D : Paises,
            CANTIDAD : Cantidades, VAL_MNX : ValoresMnx] :
        /\ r.ANIO = 2004 \/ r.TIPO = "Importaciones" =>
            /\ r.PAIS_O_D = "USA" /\ r.CANTIDAD = 12 /\ r.VAL_MNX = 7
            /\ ~(r.ANIO = 2004 /\ r.TIPO = "Importaciones")
        /\ r.ANIO = 2023 /\ r.TIPO = "Exportaciones" /\ r.VAL_MNX = 7 =>
            r.CANTIDAD = 5}

-----------------------------------------------------------------------------
(* DataFrame operations.                                                   *)

\* the labels of the index of df, in row order
Indice(rows) == [i \in 1..Len(rows) |-> rows[i].idx]

\* the distinct values of column by, NaN left out (groupby drops them)
Claves(rows, by) == {rows[i][by] : i \in 1..Len(rows)} \ {NULL}

\* .count() in the place of .sum() and .max()
ReduceCuenta(modo, cells) == Len(cells)

\* .sum() and .max() of the cells of one column of a group
Reduce(modo, cells) == IF modo = "sum" THEN SeqSum(cells) ELSE SeqMax(cells)

\* the rows re-indexed by the column by, no two of them merged
GroupBySinUnir(rows, by, cols, modo) ==
    [n \in 1..Len(rows) |->
        [c \in cols \cup {"idx"} |->
            IF c = "idx" THEN rows[n][by] ELSE rows[n][c]]]

\* df.groupby(by).sum(numeric_only=True) and .max(numeric_only=True): one
\* row per distinct value of by, sorted by it, each column of cols reduced
\* over the rows of the group
GroupBy(rows, by, cols, modo) ==
    LET keys == Claves(rows, by)
        InKeys(k) == k \in keys
        orden == SelectSeq(OrdenIndice, InKeys)
        Grupo(k) == LET Es(r) == r[by] = k IN SelectSeq(rows, Es)
    IN  [n \in 1..Len(orden) |->
            [c \in cols \cup {"idx"} |->
                IF c = "idx" THEN orden[n]
                ELSE Reduce(modo, Column(Grupo(orden[n]), c))]]

\* str(n).zfill(w)
RECURSIVE Zfill(_, _)
Zfill(str, w) == IF Len(str) >= w THEN str ELSE Zfill("0" \o str, w)

RECURSIVE InsertarDesc(_, _, _)
\* row r inserted into rows, sorted by col descending, after its equals
InsertarDesc(rows, r, col) ==
    IF rows = <<>> THEN <<r>>
    ELSE IF Head(rows)[col] >= r[col]
         THEN <<Head(rows)>> \o InsertarDesc(Tail(rows), r, col)
         ELSE <<r>> \o rows

RECURSIVE SortDesc(_, _)
\* df.sort_values(col, ascending=False): equal values keep their order
SortDesc(rows, col) ==
    IF rows = <<>> THEN <<>>
    ELSE InsertarDesc(SortDesc(SubSeq(rows, 1, Len(rows) - 1), col),
                      rows[Len(rows)], col)

\* the exception .loc raises for a label the index does not hold
KeyError == [k |-> "KeyError"]

\* whether the index of df holds the label geo
EnIndice(rows, geo) == \E i \in 1..Len(rows) : rows[i].idx = geo

\* df.loc[geo, col]: KeyError when no row has the label, the cell when one
\* row has it, a Series of the cells when several have it
Loc(rows, geo, col) ==
    LET Es(r) == r.idx = geo
        m == SelectSeq(rows, Es)
    IN  IF m = <<>> THEN KeyError
        ELSE IF Len(m) = 1 THEN m[1][col]
        ELSE Series(Column(m, col))

-----------------------------------------------------------------------------
(* The state before the call, and the statements up to the aggregation.    *)

Funciones ==
    {"plot_mapa_estatal", "plot_mapa_municipal", "mapa_exportaciones",
     "top_exportaciones"}
\* the two that read ./data/inegi_exportaciones.csv
DeExportaciones == {"mapa_exportaciones", "top_exportaciones"}

\* no value yet
Vacio == <<>>

\* nothing is bound yet, no file exists
SinLocales ==
    /\ df = <<>>
    /\ df_antes = <<>>
    /\ subtitulo = Vacio
    /\ min_val = NaN
    /\ max_val = NaN
    /\ marcas = <<>>
    /\ etiquetas = <<>>
    /\ i_marca = 0
    /\ geojson = <<>>
    /\ ubicaciones = <<>>
    /\ valores = <<>>
    /\ geojson_borde = <<>>
    /\ ubicaciones_borde = <<>>
    /\ valores_borde = <<>>
    /\ fs = <<>>
    /\ image1 = None
    /\ image2 = None
    /\ result = None
    /\ ausente = NULL
    /\ excepcion = NULL
    /\ fig = <<>>

\* the call of one of the functions with one of the years
Init ==
    /\ fn \in Funciones
    /\ anio \in Anios
    /\ pc = "read_csv"
    /\ valor_original = NaN
    /\ trabajadores = <<>>
    /\ SinLocales

fijas == <<fn, anio, trabajadores>>
escala == <<min_val, max_val, marcas, etiquetas, i_marca, valor_original>>
capas == <<geojson, ubicaciones, valores,
           geojson_borde, ubicaciones_borde, valores_borde>>
imagenes == <<fs, image1, image2, result>>

\* the columns of the CSV file that function f reads by name
ColumnasLeidas(f) ==
    CASE f = "plot_mapa_estatal" ->
            {"Anio", "Nomestado", "Valorproduccion", "Volumenproduccion"}
      [] f = "plot_mapa_municipal" ->
            {"Anio", "Idestado", "Idmunicipio", "Valorproduccion",
             "Volumenproduccion"}
      [] f = "mapa_exportaciones" ->
            {"ANIO", "TIPO", "PAIS_O_D", "CANTIDAD", "VAL_MNX"}
      [] OTHER -> {"ANIO", "TIPO", "PAIS_O_D", "CANTIDAD"}

\* the columns of df the statement p of function f reads by name:
\* df[c] of a column the file lacks raises KeyError
Usa(f, p) ==
    CASE p = "filtrar_anio" ->
            IF f \in DeExportaciones THEN {"ANIO"} ELSE {"Anio"}
      [] p = "cve" -> {"Idestado", "Idmunicipio"}
      [] p = "filtrar_tipo" -> {"TIPO"}
      [] p = "fillna" -> {"PAIS_O_D"}
      [] p = "groupby" /\ f = "plot_mapa_estatal" -> {"Nomestado"}
      [] p = "mdp" -> {"Valorproduccion"}
      [] p \in {"sin_produccion", "log"} -> {"Volumenproduccion"}
      [] p = "subtitulo" /\ f = "plot_mapa_municipal" ->
            {"Volumenproduccion", "Valorproduccion"}
      [] p = "subtitulo" /\ f = "mapa_exportaciones" -> {"CANTIDAD", "VAL_MNX"}
      [] p = "ordenar_cantidad" -> {"CANTIDAD"}
      [] OTHER -> {}

\* the statement about to run finds the columns it reads
ConColumnas == ausente \notin Usa(fn, pc)

\* row r of a file without column c
SinColumna(r, c) == [k \in DOMAIN r \ {c} |-> r[k]]

\* the rows a file of function f may hold
Filas(f) ==
    CASE f = "plot_mapa_estatal" -> FilasEstatal
      [] f = "plot_mapa_municipal" -> FilasMunicipal
      [] OTHER -> FilasExportaciones

\* df = pd.read_csv(...): the file may lack one of the columns
ReadCsv ==
    /\ pc = "read_csv"
    /\ \E a \in ColumnasLeidas(fn) \cup {NULL} :
        /\ ausente' = a
        /\ df' \in IF a = NULL THEN SeqsUpTo(Filas(fn), MaxRows)
                   ELSE SeqsUpTo({SinColumna(r, a) : r \in Filas(fn)},
                                 MaxRowsIncompletas)
    /\ pc' = "filtrar_anio"
    /\ UNCHANGED <<fijas, excepcion, fig, df_antes, subtitulo, escala, capas, imagenes>>

\* the missing column is ignored and the call completes
ColumnaAusenteIgnorada ==
    /\ ~ConColumnas
    /\ pc' = "done"
    /\ UNCHANGED <<fijas, ausente, excepcion, fig, df_antes, df, subtitulo, escala, capas, imagenes>>

\* df[c] of a column the file lacks: KeyError ends the call
ColumnaAusente ==
    /\ ~ConColumnas
    /\ pc' = "error"
    /\ excepcion' = "KeyError"
    /\ UNCHANGED <<fijas, ausente, fig, df_antes, df, subtitulo, escala, capas, imagenes>>

\* df = df[df["Anio"] == año]; df = df[df["ANIO"] == año]
FiltrarAnio ==
    /\ pc = "filtrar_anio"
    /\ ConColumnas
    /\ LET DelAnio(r) == IF fn \in DeExportaciones THEN r.ANIO = anio
                         ELSE r.Anio = anio
       IN  df' = SelectSeq(df, DelAnio)
    /\ pc' = CASE fn = "plot_mapa_estatal" -> "groupby"
               [] fn = "plot_mapa_municipal" -> "cve"
               [] OTHER -> "filtrar_tipo"
    /\ UNCHANGED <<fijas, ausente, excepcion, fig, df_antes, subtitulo, escala, capas, imagenes>>

\* df["Idestado"] = ....zfill(2); df["Idmunicipio"] = ....zfill(3);
\* df["CVE"] = df["Idestado"] + df["Idmunicipio"]
CrearCVE ==
    /\ pc = "cve"
    /\ ConColumnas
    /\ df' = [i \in 1..Len(df) |->
                LET e == Zfill(ToString(df[i].Idestado), 2)
                    m == Zfill(ToString(df[i].Idmunicipio), 3)
                IN  [c \in DOMAIN df[i] \cup {"CVE"} |->
                        CASE c = "Idestado" -> e
                          [] c = "Idmunicipio" -> m
                          [] c = "CVE" -> e \o m
                          [] OTHER -> df[i][c]]]
    /\ pc' = "groupby"
    /\ UNCHANGED <<fijas, ausente, excepcion, fig, df_antes, subtitulo, escala, capas, imagenes>>

\* df = df[df["TIPO"] == "Exportaciones"]
FiltrarTipo ==
    /\ pc = "filtrar_tipo"
    /\ ConColumnas
    /\ LET EsExportacion(r) == r.TIPO = "Exportaciones"
       IN  df' = SelectSeq(df, EsExportacion)
    /\ pc' = "fillna"
    /\ UNCHANGED <<fijas, ausente, excepcion, fig, df_antes, subtitulo, escala, capas, imagenes>>

\* the statement left out: the rows without destination stay without it
SinFillna(rows) == rows

\* df["PAIS_O_D"] = df["PAIS_O_D"].fillna("TOTAL")
Fillna(rows) ==
    [i \in 1..Len(rows) |->
        IF rows[i].PAIS_O_D = NULL
        THEN [rows[i] EXCEPT !.PAIS_O_D = "TOTAL"]
        ELSE rows[i]]

FillnaTotal ==
    /\ pc = "fillna"
    /\ ConColumnas
    /\ df' = Fillna(df)
    /\ df_antes' = df
    /\ pc' = "groupby"
    /\ UNCHANGED <<fijas, ausente, excepcion, fig, subtitulo, escala, capas, imagenes>>

\* df.groupby("Nomestado").sum(numeric_only=True)
AgruparEstatal(rows) ==
    GroupBy(rows, "Nomestado",
            {"Anio", "Volumenproduccion", "Valorproduccion"} \ {ausente}, "sum")

\* df.groupby("CVE").sum(numeric_only=True): Idestado and Idmunicipio are
\* strings by now and are left out
AgruparMunicipal(rows) ==
    GroupBy(rows, "CVE",
            {"Anio", "Volumenproduccion", "Valorproduccion"} \ {ausente}, "sum")

\* for each destination its row of greatest CANTIDAD, taken whole
AgruparPorFilaMayor(rows) ==
    LET g == GroupBy(rows, "PAIS_O_D", {"ANIO", "CANTIDAD", "VAL_MNX"} \ {ausente}, "max")
    IN  IF ausente # NULL THEN g ELSE
        [n \in 1..Len(g) |->
            LET r == CHOOSE r \in {rows[i] : i \in 1..Len(rows)} :
                        r.PAIS_O_D = g[n].idx /\ r.CANTIDAD = g[n].CANTIDAD
            IN  [idx |-> g[n].idx, ANIO |-> r.ANIO, CANTIDAD |-> r.CANTIDAD,
                 VAL_MNX |-> r.VAL_MNX]]

\* df.groupby("PAIS_O_D").max(numeric_only=True)
AgruparExportaciones(rows) ==
    GroupBy(rows, "PAIS_O_D", {"ANIO", "CANTIDAD", "VAL_MNX"} \ {ausente}, "max")

Agrupar ==
    /\ pc = "groupby"
    /\ ConColumnas
    /\ df' = CASE fn = "plot_mapa_estatal" -> AgruparEstatal(df)
               [] fn = "plot_mapa_municipal" -> AgruparMunicipal(df)
               [] OTHER -> AgruparExportaciones(df)
    /\ pc' = CASE fn = "plot_mapa_estatal" -> "mdp"
               [] fn = "plot_mapa_municipal" -> "sin_produccion"
               [] fn = "mapa_exportaciones" -> "valor_dummy"
               [] OTHER -> "nombre"
    /\ df_antes' = df
    /\ UNCHANGED <<fijas, ausente, excepcion, fig, subtitulo, escala, capas, imagenes>>

-----------------------------------------------------------------------------
(* plot_mapa_estatal and plot_mapa_municipal: the log column and the scale. *)

\* the divisor of df["Valorproduccion"] /= 1000000
Millon == 1000000
\* the number of ticks: np.linspace(min_val, max_val, 11)
NumMarcas == 11

\* df["Valorproduccion"] /= 1000000: the quotient is kept as a fraction
ConvertirMDP ==
    /\ pc = "mdp"
    /\ ConColumnas
    /\ df' = [i \in 1..Len(df) |->
                [df[i] EXCEPT !.Valorproduccion = <<@, Millon>>]]
    /\ df_antes' = <<>>
    /\ pc' = "log"
    /\ UNCHANGED <<fijas, ausente, excepcion, fig, subtitulo, escala, capas, imagenes>>

\* df = df[df["Volumenproduccion"] != 0]
SinProduccion ==
    /\ pc = "sin_produccion"
    /\ ConColumnas
    /\ LET Produce(r) == r.Volumenproduccion # 0
       IN  df' = SelectSeq(df, Produce)
    /\ df_antes' = <<>>
    /\ pc' = "log"
    /\ UNCHANGED <<fijas, ausente, excepcion, fig, subtitulo, escala, capas, imagenes>>

\* df["log"] = np.log10(df["Volumenproduccion"])
ColumnaLog(rows) ==
    [i \in 1..Len(rows) |->
        [c \in DOMAIN rows[i] \cup {"log"} |->
            IF c = "log" THEN Log10(rows[i].Volumenproduccion)
            ELSE rows[i][c]]]

CalcularLog ==
    /\ pc = "log"
    /\ ConColumnas
    /\ df' = ColumnaLog(df)
    /\ pc' = IF fn = "plot_mapa_estatal" THEN "renombrar" ELSE "subtitulo"
    /\ UNCHANGED <<fijas, ausente, excepcion, fig, df_antes, subtitulo, escala, capas, imagenes>>

\* the index is left as the source names it
NombreSinCambio(x) == x

\* lambda x: "Estado de México" if x == "México" else x
NombreGeo(x) == IF x = "México" THEN "Estado de México" ELSE x

\* df.index = df.index.map(...)
Renombrar ==
    /\ pc = "renombrar"
    /\ df' = [i \in 1..Len(df) |-> [df[i] EXCEPT !.idx = NombreGeo(@)]]
    /\ df_antes' = df
    /\ pc' = "subtitulo"
    /\ UNCHANGED <<fijas, ausente, excepcion, fig, subtitulo, escala, capas, imagenes>>

\* the national totals of the subtitle, before they are formatted; the
\* descriptive statistics of plot_mapa_municipal only feed an annotation
Subtitulo ==
    /\ pc = "subtitulo"
    /\ ConColumnas
    /\ fn \notin DeExportaciones
    /\ subtitulo' =
        [volumen |-> SeqSum(Column(df, "Volumenproduccion")),
         valor |-> IF fn = "plot_mapa_estatal"
                   THEN SeqSum([i \in 1..Len(df) |-> df[i].Valorproduccion[1]])
                   ELSE SeqSum(Column(df, "Valorproduccion"))]
    /\ pc' = IF fn = "plot_mapa_estatal" THEN "ordenar" ELSE "min_max"
    /\ UNCHANGED <<fijas, ausente, excepcion, fig, df_antes, df, escala, capas, imagenes>>

\* df = df.sort_values("Volumenproduccion", ascending=False)
Ordenar ==
    /\ pc = "ordenar"
    /\ df' = SortDesc(df, "Volumenproduccion")
    /\ pc' = "min_max"
    /\ UNCHANGED <<fijas, ausente, excepcion, fig, df_antes, subtitulo, escala, capas, imagenes>>

\* the bounds of the scale taken the wrong way round
MinMaxAlReves ==
    /\ pc = "min_max"
    /\ min_val' = ColMax(Column(df, "log"))
    /\ max_val' = ColMin(Column(df, "log"))
    /\ pc' = "linspace"
    /\ UNCHANGED <<fijas, ausente, excepcion, fig, df_antes, df, subtitulo, marcas, etiquetas, i_marca,
                   valor_original, capas, imagenes>>

\* min_val = df["log"].min(); max_val = df["log"].max()
MinMax ==
    /\ pc = "min_max"
    /\ min_val' = ColMin(Column(df, "log"))
    /\ max_val' = ColMax(Column(df, "log"))
    /\ pc' = "linspace"
    /\ UNCHANGED <<fijas, ausente, excepcion, fig, df_antes, df, subtitulo, marcas, etiquetas, i_marca,
                   valor_original, capas, imagenes>>

\* marcas = np.linspace(min_val, max_val, 11); etiquetas = list()
CrearMarcas ==
    /\ pc = "linspace"
    /\ marcas' = Linspace(min_val, max_val, NumMarcas)
    /\ etiquetas' = <<>>
    /\ i_marca' = 0
    /\ pc' = "for_marcas"
    /\ UNCHANGED <<fijas, ausente, excepcion, fig, df_antes, df, subtitulo, min_val, max_val, valor_original,
                   capas, imagenes>>

\* for item in marcas: valor_original = 10**item
ValorOriginal ==
    /\ pc = "for_marcas"
    /\ i_marca < Len(marcas)
    /\ valor_original' = Pow10(marcas[i_marca + 1])
    /\ pc' = "etiqueta"
    /\ UNCHANGED <<fijas, ausente, excepcion, fig, df_antes, df, subtitulo, min_val, max_val, marcas,
                   etiquetas, i_marca, capas, imagenes>>

\* the if/elif/else of the loop: one label is appended
Etiquetar ==
    /\ pc = "etiqueta"
    /\ etiquetas' = Append(etiquetas, Etiqueta(valor_original))
    /\ i_marca' = i_marca + 1
    /\ pc' = "for_marcas"
    /\ UNCHANGED <<fijas, ausente, excepcion, fig, df_antes, df, subtitulo, min_val, max_val, marcas,
                   valor_original, capas, imagenes>>

\* after the loop the figure is written without joining the catalogue
FinMarcasSinUnir ==
    /\ pc = "for_marcas"
    /\ i_marca = Len(marcas)
    /\ pc' = IF fn = "plot_mapa_estatal" THEN "write_0" ELSE "write_municipios"
    /\ UNCHANGED <<fijas, ausente, excepcion, fig, df_antes, df, subtitulo, escala, capas, imagenes>>

\* the loop ends when marcas is exhausted
FinMarcas ==
    /\ pc = "for_marcas"
    /\ i_marca = Len(marcas)
    /\ pc' = "geojson"
    /\ UNCHANGED <<fijas, ausente, excepcion, fig, df_antes, df, subtitulo, escala, capas, imagenes>>

-----------------------------------------------------------------------------
(* The join of the aggregated records onto the catalogue.                  *)

\* the features of ./assets/mexico.json, each with its NOMGEO
CatalogosEstatales ==
    SeqsUpTo([NOMGEO : NombresGeo], MaxFeatures)

\* the features of ./assets/mexico2023.json, each with its CVEGEO
CatalogosMunicipales ==
    SeqsUpTo([CVEGEO : ClavesGeo], MaxFeatures)

\* geojson = json.loads(open(...).read())
CargarGeojson ==
    /\ pc = "geojson"
    /\ geojson' \in IF fn = "plot_mapa_estatal" THEN CatalogosEstatales
                    ELSE CatalogosMunicipales
    /\ pc' = "unir"
    /\ UNCHANGED <<fijas, ausente, excepcion, fig, df_antes, df, subtitulo, escala, ubicaciones, valores,
                   geojson_borde, ubicaciones_borde, valores_borde, imagenes>>

\* geo = item["properties"]["NOMGEO"]; geo = str(item["properties"]["CVEGEO"])
Geo(item) ==
    IF "NOMGEO" \in DOMAIN item THEN item.NOMGEO ELSE item.CVEGEO

\* try: valores.append(df.loc[geo, "log"])
\* except Exception: valores.append(None)
ValorDe(rows, geo) ==
    IF EnIndice(rows, geo) THEN Loc(rows, geo, "log") ELSE None

\* the join with the features that have no record skipped
UnirSoloConDatos ==
    /\ pc = "unir"
    /\ LET ConDatos(item) == EnIndice(df, Geo(item))
           con == SelectSeq(geojson, ConDatos)
       IN  /\ ubicaciones' = [i \in 1..Len(con) |-> Geo(con[i])]
           /\ valores' = [i \in 1..Len(con) |-> ValorDe(df, Geo(con[i]))]
    /\ pc' = "trazar_mapa"
    /\ UNCHANGED <<fijas, ausente, excepcion, fig, df_antes, df, subtitulo, escala, geojson,
                   geojson_borde, ubicaciones_borde, valores_borde, imagenes>>

\* go.Choropleth(geojson=..., locations=..., z=..., featureidkey=...,
\* zmin=..., zmax=..., colorbar=dict(tickvals=..., ticktext=...)): the
\* arguments that carry data; showscale=False leaves out the colour bar
Choropleth(gj, locs, z, key, zmin, zmax, showscale, tickvals, ticktext) ==
    [tipo |-> "Choropleth", geojson |-> gj, locations |-> locs, z |-> z,
     featureidkey |-> key, zmin |-> zmin, zmax |-> zmax,
     showscale |-> showscale, tickvals |-> tickvals, ticktext |-> ticktext]

\* for item in geojson["features"]: one location and one value per feature
Unir ==
    /\ pc = "unir"
    /\ ubicaciones' = ubicaciones \o [i \in 1..Len(geojson) |-> Geo(geojson[i])]
    /\ valores' = valores \o [i \in 1..Len(geojson) |-> ValorDe(df, Geo(geojson[i]))]
    /\ pc' = "trazar_mapa"
    /\ UNCHANGED <<fijas, ausente, excepcion, fig, df_antes, df, subtitulo, escala, geojson,
                   geojson_borde, ubicaciones_borde, valores_borde, imagenes>>

\* fig.add_traces(go.Choropleth(geojson=geojson, locations=ubicaciones,
\* z=valores, featureidkey=..., zmin=min_val, zmax=max_val,
\* colorbar=dict(tickvals=marcas, ticktext=etiquetas, ...)))
TrazarMapa ==
    /\ pc = "trazar_mapa"
    /\ fig' = fig \o <<Choropleth(geojson, ubicaciones, valores,
                                  IF fn = "plot_mapa_estatal"
                                  THEN "properties.NOMGEO"
                                  ELSE "properties.CVEGEO",
                                  min_val, max_val, TRUE, marcas, etiquetas)>>
    /\ pc' = IF fn = "plot_mapa_estatal" THEN "write_0" ELSE "geojson_borde"
    /\ UNCHANGED <<fijas, ausente, excepcion, df_antes, df, subtitulo, escala,
                   capas, imagenes>>

\* NOMGEO of the features of ./assets/mexico.json when read for the borders
NombresBorde == {"Colima", "Jalisco"}

\* geojson_borde = json.loads(open("./assets/mexico.json", ...).read())
CargarBorde ==
    /\ pc = "geojson_borde"
    /\ geojson_borde' \in SeqsUpTo([NOMGEO : NombresBorde], MaxFeaturesBorde)
    /\ pc' = "borde"
    /\ UNCHANGED <<fijas, ausente, excepcion, fig, df_antes, df, subtitulo, escala, geojson, ubicaciones,
                   valores, ubicaciones_borde, valores_borde, imagenes>>

\* the value of each outline is taken from the aggregated records
BordeSegunDatos ==
    /\ pc = "borde"
    /\ ubicaciones_borde' =
        ubicaciones_borde \o [i \in 1..Len(geojson_borde) |-> Geo(geojson_borde[i])]
    /\ valores_borde' = valores_borde \o [i \in 1..Len(geojson_borde) |-> Len(df)]
    /\ pc' = "trazar_borde"
    /\ UNCHANGED <<fijas, ausente, excepcion, fig, df_antes, df, subtitulo, escala, geojson, ubicaciones,
                   valores, geojson_borde, imagenes>>

\* for item in geojson_borde["features"]: the location and the value 1
Borde ==
    /\ pc = "borde"
    /\ ubicaciones_borde' =
        ubicaciones_borde \o [i \in 1..Len(geojson_borde) |-> Geo(geojson_borde[i])]
    /\ valores_borde' = valores_borde \o [i \in 1..Len(geojson_borde) |-> 1]
    /\ pc' = "trazar_borde"
    /\ UNCHANGED <<fijas, ausente, excepcion, fig, df_antes, df, subtitulo, escala, geojson, ubicaciones,
                   valores, geojson_borde, imagenes>>

\* fig.add_traces(go.Choropleth(geojson=geojson_borde,
\* locations=ubicaciones_borde, z=valores_borde, showscale=False, ...))
TrazarBorde ==
    /\ pc = "trazar_borde"
    /\ fig' = fig \o <<Choropleth(geojson_borde, ubicaciones_borde,
                                  valores_borde, "properties.NOMGEO",
                                  None, None, FALSE, None, None)>>
    /\ pc' = "write_municipios"
    /\ UNCHANGED <<fijas, ausente, excepcion, df_antes, df, subtitulo, escala,
                   capas, imagenes>>

-----------------------------------------------------------------------------
(* mapa_exportaciones after the aggregation.                               *)

\* df["valor"] = 1
ValorDummy ==
    /\ pc = "valor_dummy"
    /\ df' = [i \in 1..Len(df) |->
                [c \in DOMAIN df[i] \cup {"valor"} |->
                    IF c = "valor" THEN 1 ELSE df[i][c]]]
    /\ df_antes' = <<>>
    /\ pc' = "subtitulo"
    /\ UNCHANGED <<fijas, ausente, excepcion, fig, subtitulo, escala, capas, imagenes>>

\* subtitulo = f"Total: {df.loc['TOTAL', 'CANTIDAD']/1000:,.0f} ...": the
\* KeyError of a dataset without totals ends the call
SubtituloExportaciones ==
    /\ pc = "subtitulo"
    /\ ConColumnas
    /\ fn = "mapa_exportaciones"
    /\ IF ~EnIndice(df, "TOTAL")
       THEN /\ pc' = "error"
            /\ excepcion' = "KeyError"
            /\ UNCHANGED subtitulo
       ELSE /\ subtitulo' = [cantidad |-> Loc(df, "TOTAL", "CANTIDAD"),
                             valor |-> Loc(df, "TOTAL", "VAL_MNX")]
            /\ pc' = "trazar"
            /\ UNCHANGED excepcion
    /\ UNCHANGED <<fijas, ausente, fig, df_antes, df, escala, capas, imagenes>>

\* go.Choropleth(locations=df.index, z=df["valor"], ...)
Trazar ==
    /\ pc = "trazar"
    /\ fig' = fig \o <<Choropleth(None, Indice(df), Column(df, "valor"), None,
                                  0, 1, FALSE, None, None)>>
    /\ pc' = "write_exportaciones"
    /\ UNCHANGED <<fijas, ausente, excepcion, df_antes, df, subtitulo, escala,
                   capas, imagenes>>

-----------------------------------------------------------------------------
(* top_exportaciones after the aggregation (aguacate_graficas.py).         *)

\* ./assets/paises.csv, indexed by its first column: the names of the
\* countries; the totals have no entry
paises == [idx \in {"CAN", "USA"} |->
            IF idx = "CAN" THEN "Canadá" ELSE "Estados Unidos"]

\* the divisor of df["CANTIDAD"] /= 1000
Mil == 1000
\* the end of df.iloc[1:16]
FinTop == 16

\* df["nombre"] = paises["nombre"]: aligned on the index, NaN without entry
AsignarNombre ==
    /\ pc = "nombre"
    /\ df' = [i \in 1..Len(df) |->
                [c \in DOMAIN df[i] \cup {"nombre"} |->
                    IF c # "nombre" THEN df[i][c]
                    ELSE IF df[i].idx \in DOMAIN paises THEN paises[df[i].idx]
                    ELSE NULL]]
    /\ df_antes' = <<>>
    /\ pc' = "ordenar_cantidad"
    /\ UNCHANGED <<fijas, ausente, excepcion, fig, subtitulo, escala, capas, imagenes>>

\* df.sort_values("CANTIDAD", ascending=False, inplace=True)
OrdenarCantidad ==
    /\ pc = "ordenar_cantidad"
    /\ ConColumnas
    /\ df' = SortDesc(df, "CANTIDAD")
    /\ pc' = "perc"
    /\ UNCHANGED <<fijas, ausente, excepcion, fig, df_antes, subtitulo, escala, capas, imagenes>>

\* df["perc"] = df["CANTIDAD"] / df.loc["TOTAL", "CANTIDAD"] * 100, kept
\* as a fraction; the KeyError of a dataset without totals ends the call
Porcentaje ==
    /\ pc = "perc"
    /\ IF ~EnIndice(df, "TOTAL")
       THEN /\ pc' = "error"
            /\ excepcion' = "KeyError"
            /\ UNCHANGED df
       ELSE /\ df' = [i \in 1..Len(df) |->
                        [c \in DOMAIN df[i] \cup {"perc"} |->
                            IF c # "perc" THEN df[i][c]
                            ELSE <<df[i].CANTIDAD * 100,
                                   Loc(df, "TOTAL", "CANTIDAD")>>]]
            /\ pc' = "toneladas"
            /\ UNCHANGED excepcion
    /\ UNCHANGED <<fijas, ausente, fig, df_antes, subtitulo, escala, capas, imagenes>>

\* df["CANTIDAD"] /= 1000: the quotient is kept as a fraction
Toneladas ==
    /\ pc = "toneladas"
    /\ df' = [i \in 1..Len(df) |-> [df[i] EXCEPT !.CANTIDAD = <<@, Mil>>]]
    /\ pc' = "top"
    /\ UNCHANGED <<fijas, ausente, excepcion, fig, df_antes, subtitulo, escala, capas, imagenes>>

\* df = df.iloc[1:16]
Top ==
    /\ pc = "top"
    /\ df' = SubSeq(df, 2, IF Len(df) < FinTop THEN Len(df) ELSE FinTop)
    /\ pc' = "write_top"
    /\ UNCHANGED <<fijas, ausente, excepcion, fig, df_antes, subtitulo, escala, capas, imagenes>>

-----------------------------------------------------------------------------
(* The files: fig.write_image, Image.open, result.save, os.remove.         *)

\* layout width and height of the map and of the tables of plot_mapa_estatal
AnchoMapa == 1280
AltoMapa == 720
AnchoTablas == 1280
AltoTablas == 560
\* result_width = 1280
AnchoResultado == 1280
\* layout width and height of plot_mapa_municipal and mapa_exportaciones
AnchoGrande == 7680
AltoGrande == 4320

\* the image fig.write_image renders in the call of year a: the figure at
\* its layout size
ImagenDe(a, figura, ancho, alto) ==
    [figura |-> figura, anio |-> a, width |-> ancho, height |-> alto]

Imagen(figura, ancho, alto) == ImagenDe(anio, figura, ancho, alto)

\* the file at path holds contenido from now on
Escribir(archivos, path, contenido) ==
    [q \in DOMAIN archivos \cup {path} |->
        IF q = path THEN contenido ELSE archivos[q]]

\* os.remove(path)
Quitar(archivos, path) ==
    [q \in DOMAIN archivos \ {path} |-> archivos[q]]

\* f"./entidades_{año}.png", f"./municipios_{año}.png", ...
RutaDe(a, nombre) == "./" \o nombre \o "_" \o ToString(a) \o ".png"

Ruta(nombre) == RutaDe(anio, nombre)

\* fig.write_image("./0.png")
EscribirMapa ==
    /\ pc = "write_0"
    /\ fs' = Escribir(fs, "./0.png", Imagen("mapa", AnchoMapa, AltoMapa))
    /\ pc' = "write_1"
    /\ UNCHANGED <<fijas, ausente, excepcion, fig, df_antes, df, subtitulo, escala, capas, image1, image2, result>>

\* rows per table: df.index[:16] and df.index[16:]
FilasPorTabla == 16

\* go.Table(cells=dict(values=[df.index[a:b], df["Valorproduccion"][a:b],
\* df["Volumenproduccion"][a:b]])), rows desde..hasta counted from 1
Tabla(rows, desde, hasta) ==
    LET r == SubSeq(rows, desde, IF hasta < Len(rows) THEN hasta ELSE Len(rows))
    IN  [tipo |-> "Table", index |-> Indice(r),
         Valorproduccion |-> Column(r, "Valorproduccion"),
         Volumenproduccion |-> Column(r, "Volumenproduccion")]

\* fig = make_subplots(...); the two tables are built from df;
\* fig.write_image("./1.png")
EscribirTablas ==
    /\ pc = "write_1"
    /\ fig' = <<Tabla(df, 1, FilasPorTabla),
                Tabla(df, FilasPorTabla + 1, Len(df))>>
    /\ fs' = Escribir(fs, "./1.png", Imagen("tablas", AnchoTablas, AltoTablas))
    /\ pc' = "open_0"
    /\ UNCHANGED <<fijas, ausente, excepcion, df_antes, df, subtitulo, escala, capas, image1, image2, result>>

\* image1 = Image.open("./0.png"): FileNotFoundError without the file
AbrirImagen1 ==
    /\ pc = "open_0"
    /\ IF "./0.png" \in DOMAIN fs
       THEN /\ image1' = fs["./0.png"]
            /\ pc' = "open_1"
            /\ UNCHANGED excepcion
       ELSE /\ pc' = "error"
            /\ excepcion' = "FileNotFoundError"
            /\ UNCHANGED image1
    /\ UNCHANGED <<fijas, ausente, fig, df_antes, df, subtitulo, escala, capas, fs, image2, result>>

\* image2 = Image.open("./1.png")
AbrirImagen2 ==
    /\ pc = "open_1"
    /\ IF "./1.png" \in DOMAIN fs
       THEN /\ image2' = fs["./1.png"]
            /\ pc' = "componer"
            /\ UNCHANGED excepcion
       ELSE /\ pc' = "error"
            /\ excepcion' = "FileNotFoundError"
            /\ UNCHANGED image2
    /\ UNCHANGED <<fijas, ausente, fig, df_antes, df, subtitulo, escala, capas, fs, image1, result>>

\* result = Image.new("RGB", (result_width, result_height)) and the two
\* result.paste(im=..., box=...)
\* the second image pasted over the first, at the origin
CompuestaEncimada(im1, im2) ==
    [width |-> AnchoResultado,
     height |-> im1.height + im2.height,
     pegadas |-> <<[im |-> im1, box |-> <<0, 0>>],
                   [im |-> im2, box |-> <<0, 0>>]>>]

Compuesta(im1, im2) ==
    [width |-> AnchoResultado,
     height |-> im1.height + im2.height,
     pegadas |-> <<[im |-> im1, box |-> <<0, 0>>],
                   [im |-> im2, box |-> <<0, im1.height>>]>>]

Componer ==
    /\ pc = "componer"
    /\ result' = Compuesta(image1, image2)
    /\ pc' = "save"
    /\ UNCHANGED <<fijas, ausente, excepcion, fig, df_antes, df, subtitulo, escala, capas, fs, image1, image2>>

\* result.save(f"./entidades_{año}.png")
Guardar ==
    /\ pc = "save"
    /\ fs' = Escribir(fs, Ruta("entidades"), result)
    /\ pc' = "remove_0"
    /\ UNCHANGED <<fijas, ausente, excepcion, fig, df_antes, df, subtitulo, escala, capas, image1, image2, result>>

\* os.remove("./0.png"): FileNotFoundError without the file
Borrar0 ==
    /\ pc = "remove_0"
    /\ IF "./0.png" \in DOMAIN fs
       THEN /\ fs' = Quitar(fs, "./0.png")
            /\ pc' = "remove_1"
            /\ UNCHANGED excepcion
       ELSE /\ pc' = "error"
            /\ excepcion' = "FileNotFoundError"
            /\ UNCHANGED fs
    /\ UNCHANGED <<fijas, ausente, fig, df_antes, df, subtitulo, escala, capas, image1, image2, result>>

\* os.remove("./1.png"), the last statement
Borrar1 ==
    /\ pc = "remove_1"
    /\ IF "./1.png" \in DOMAIN fs
       THEN /\ fs' = Quitar(fs, "./1.png")
            /\ pc' = "done"
            /\ UNCHANGED excepcion
       ELSE /\ pc' = "error"
            /\ excepcion' = "FileNotFoundError"
            /\ UNCHANGED fs
    /\ UNCHANGED <<fijas, ausente, fig, df_antes, df, subtitulo, escala, capas, image1, image2, result>>

\* fig.write_image(f"./municipios_{año}.png"), the last statement
EscribirMunicipios ==
    /\ pc = "write_municipios"
    /\ fs' = Escribir(fs, Ruta("municipios"), Imagen("municipios", AnchoGrande, AltoGrande))
    /\ pc' = "done"
    /\ UNCHANGED <<fijas, ausente, excepcion, fig, df_antes, df, subtitulo, escala, capas, image1, image2, result>>

\* fig.write_image(f"./exportaciones_{año}.png"), the last statement
EscribirExportaciones ==
    /\ pc = "write_exportaciones"
    /\ fs' = Escribir(fs, Ruta("exportaciones"), Imagen("exportaciones", AnchoGrande, AltoGrande))
    /\ pc' = "done"
    /\ UNCHANGED <<fijas, ausente, excepcion, fig, df_antes, df, subtitulo, escala, capas, image1, image2, result>>

\* fig.write_image(f"./top_exports_{año}.png"), the last statement
EscribirTop ==
    /\ pc = "write_top"
    /\ fs' = Escribir(fs, Ruta("top_exports"), Imagen("top", AnchoMapa, AltoMapa))
    /\ pc' = "done"
    /\ UNCHANGED <<fijas, ausente, excepcion, fig, df_antes, df, subtitulo, escala, capas, image1, image2, result>>

\* the statements that reach outside the process (a file to read or write,
\* the renderer, the image library) and may raise; nothing catches it
PuedeFallar ==
    {"read_csv", "geojson", "geojson_borde", "write_0", "write_1", "open_0",
     "open_1", "componer", "save", "remove_0", "remove_1",
     "write_municipios", "write_exportaciones", "write_top"}

\* an OSError (or whatever the renderer and the image library raise)
\* leaves the function: no later statement runs
Falla ==
    /\ pc \in PuedeFallar
    /\ pc' = "error"
    /\ excepcion' = "OSError"
    /\ UNCHANGED <<fijas, ausente, fig, df_antes, df, subtitulo, escala, capas, imagenes>>

Next ==
    \/ ReadCsv \/ ColumnaAusente \/ FiltrarAnio \/ CrearCVE \/ FiltrarTipo \/ FillnaTotal
    \/ Agrupar \/ ConvertirMDP \/ SinProduccion \/ CalcularLog \/ Renombrar
    \/ Subtitulo \/ Ordenar \/ MinMax \/ CrearMarcas \/ ValorOriginal
    \/ Etiquetar \/ FinMarcas \/ CargarGeojson \/ Unir \/ CargarBorde
    \/ TrazarMapa \/ Borde \/ TrazarBorde \/ ValorDummy \/ SubtituloExportaciones \/ Trazar
    \/ EscribirMapa \/ EscribirTablas \/ AbrirImagen1 \/ AbrirImagen2
    \/ Componer \/ Guardar \/ Borrar0 \/ Borrar1 \/ EscribirMunicipios
    \/ EscribirExportaciones \/ AsignarNombre \/ OrdenarCantidad
    \/ Porcentaje \/ Toneladas \/ Top \/ EscribirTop \/ Falla

Spec == Init /\ [][Next]_vars

-----------------------------------------------------------------------------
(* The body of the label loop on its own: the if/elif/else applied to any  *)
(* linear value, not only to those the scales of the datasets above reach. *)

\* linear values, in tenths, around the thresholds and the rounding ties
MuestrasLineales ==
    {0, 4, 5, 15, 25, 9990, 9994, 9995, 9999, 10000, 10001, 14999, 15000,
     15001, 25000, 35000, 1234567, 9994999, 9995000, 9999999, 10000000,
     10499999, 10500001, 22500000, 25000000, 27500000, 99999999, 123456789}

InitEtiquetas ==
    /\ fn \in {"plot_mapa_estatal", "plot_mapa_municipal"}
    /\ anio \in Anios
    /\ pc = "etiqueta"
    /\ valor_original \in {Fin(x) : x \in MuestrasLineales}
    /\ trabajadores = <<>>
    /\ SinLocales

SpecEtiquetas == (Init \/ InitEtiquetas) /\ [][Next]_vars

-----------------------------------------------------------------------------
(* plot_mapa_estatal called for each year at the same time, one worker per *)
(* year, in one working directory.  Up to its first fig.write_image a call *)
(* touches no file but those it reads; the workers start there.  The       *)
(* statements are those of lines 199 to 310 again, on the files they share *)
(* and on each worker's own images.                                        *)

\* worker a goes on to statement p with the fields in cambios replaced
Avanza(a, p, cambios) ==
    trabajadores' =
        [trabajadores EXCEPT ![a] =
            [c \in DOMAIN @ |->
                IF c = "pc" THEN p
                ELSE IF c \in DOMAIN cambios THEN cambios[c] ELSE @[c]]]

\* worker a leaves the function by the exception e
Termina(a, e) == Avanza(a, "error", [excepcion |-> e])

secuencial == <<fn, anio, pc, df, df_antes, subtitulo, escala, capas,
                image1, image2, result, ausente, excepcion, fig>>

InitParalelo ==
    /\ fn = "plot_mapa_estatal"
    /\ anio = NULL
    /\ pc = "paralelo"
    /\ valor_original = NaN
    /\ trabajadores =
        [a \in Anios |-> [pc |-> "write_0", image1 |-> None, image2 |-> None,
                          result |-> None, excepcion |-> NULL]]
    /\ SinLocales

\* fig.write_image("./0.png")
EscribirMapaDe(a) ==
    /\ trabajadores[a].pc = "write_0"
    /\ fs' = Escribir(fs, "./0.png", ImagenDe(a, "mapa", AnchoMapa, AltoMapa))
    /\ Avanza(a, "write_1", <<>>)
    /\ UNCHANGED secuencial

\* fig.write_image("./1.png")
EscribirTablasDe(a) ==
    /\ trabajadores[a].pc = "write_1"
    /\ fs' = Escribir(fs, "./1.png", ImagenDe(a, "tablas", AnchoTablas, AltoTablas))
    /\ Avanza(a, "open_0", <<>>)
    /\ UNCHANGED secuencial

\* image1 = Image.open("./0.png")
AbrirImagen1De(a) ==
    /\ trabajadores[a].pc = "open_0"
    /\ IF "./0.png" \in DOMAIN fs
       THEN Avanza(a, "open_1", [image1 |-> fs["./0.png"]])
       ELSE Termina(a, "FileNotFoundError")
    /\ UNCHANGED <<secuencial, fs>>

\* image2 = Image.open("./1.png")
AbrirImagen2De(a) ==
    /\ trabajadores[a].pc = "open_1"
    /\ IF "./1.png" \in DOMAIN fs
       THEN Avanza(a, "componer", [image2 |-> fs["./1.png"]])
       ELSE Termina(a, "FileNotFoundError")
    /\ UNCHANGED <<secuencial, fs>>

\* result = Image.new(...) and the two result.paste
ComponerDe(a) ==
    /\ trabajadores[a].pc = "componer"
    /\ Avanza(a, "save",
              [result |-> Compuesta(trabajadores[a].image1,
                                    trabajadores[a].image2)])
    /\ UNCHANGED <<secuencial, fs>>

\* result.save(f"./entidades_{año}.png")
GuardarDe(a) ==
    /\ trabajadores[a].pc = "save"
    /\ fs' = Escribir(fs, RutaDe(a, "entidades"), trabajadores[a].result)
    /\ Avanza(a, "remove_0", <<>>)
    /\ UNCHANGED secuencial

\* os.remove("./0.png")
Borrar0De(a) ==
    /\ trabajadores[a].pc = "remove_0"
    /\ IF "./0.png" \in DOMAIN fs
       THEN fs' = Quitar(fs, "./0.png") /\ Avanza(a, "remove_1", <<>>)
       ELSE UNCHANGED fs /\ Termina(a, "FileNotFoundError")
    /\ UNCHANGED secuencial

\* os.remove("./1.png"), the last statement
Borrar1De(a) ==
    /\ trabajadores[a].pc = "remove_1"
    /\ IF "./1.png" \in DOMAIN fs
       THEN fs' = Quitar(fs, "./1.png") /\ Avanza(a, "done", <<>>)
       ELSE UNCHANGED fs /\ Termina(a, "FileNotFoundError")
    /\ UNCHANGED secuencial

\* the renderer or the image library raises in worker a
FallaDe(a) ==
    /\ trabajadores[a].pc \in PuedeFallar
    /\ Termina(a, "OSError")
    /\ UNCHANGED <<secuencial, fs>>

NextParalelo ==
    \E a \in Anios :
        \/ EscribirMapaDe(a) \/ EscribirTablasDe(a) \/ AbrirImagen1De(a)
        \/ AbrirImagen2De(a) \/ ComponerDe(a) \/ GuardarDe(a)
        \/ Borrar0De(a) \/ Borrar1De(a) \/ FallaDe(a)

SpecParalelo == InitParalelo /\ [][NextParalelo]_vars

-----------------------------------------------------------------------------
(* Properties.                                                             *)

EsMapaDeProduccion == fn \in {"plot_mapa_estatal", "plot_mapa_municipal"}

\* the statements before the join loop has run
AntesDeUnir ==
    {"read_csv", "filtrar_anio", "cve", "groupby", "mdp", "sin_produccion",
     "log", "renombrar", "subtitulo", "ordenar", "min_max", "linspace",
     "for_marcas", "etiqueta", "geojson", "unir"}

\* the join loop has run
Unido == EsMapaDeProduccion /\ pc \notin AntesDeUnir

\* the identifier of feature i of the catalogue
IdDeFeature(i) ==
    IF fn = "plot_mapa_estatal" THEN geojson[i].NOMGEO ELSE geojson[i].CVEGEO

\* the log values of the records whose key is id
LogsDe(id) == {df[j].log : j \in {j \in 1..Len(df) : df[j].idx = id}}

\* C1: after the join loop the location list and the value list have one
\* entry per feature of the catalogue, and entry i of each is that of
\* feature i: its identifier, and a value looked up under that identifier
\* (None when no record has it).
C1_UnaEntradaPorFeature ==
    Unido =>
        /\ Len(ubicaciones) = Len(geojson)
        /\ Len(valores) = Len(geojson)
        /\ \A i \in 1..Len(geojson) :
            /\ ubicaciones[i] = IdDeFeature(i)
            /\ IF LogsDe(IdDeFeature(i)) = {}
               THEN valores[i] = None
               ELSE \/ valores[i] \in LogsDe(IdDeFeature(i))
                    \/ /\ valores[i].k = "Series"
                       /\ \A n \in 1..Len(valores[i].s) :
                            valores[i].s[n] \in LogsDe(IdDeFeature(i))

\* a catalogue of three features that repeats an identifier, one feature
\* with a record and one without
C1_Testigo ==
    /\ Unido
    /\ Len(geojson) = 3
    /\ geojson[1] = geojson[3]
    /\ geojson[1] # geojson[2]
    /\ \E i \in 1..3 : valores[i] = None
    /\ \E i \in 1..3 : valores[i] # None

\* C2: a feature without a record receives None, a feature with a record
\* receives the value of that record, and the join never raises.
C2_NuloOValorDelRegistro ==
    /\ Unido =>
        \A i \in 1..Len(geojson) :
            /\ LogsDe(IdDeFeature(i)) = {} => valores[i] = None
            /\ \A j \in 1..Len(df) :
                df[j].idx = IdDeFeature(i) => valores[i] = df[j].log
    /\ Unido /\ pc # "error" => Len(valores) = Len(geojson)

\* the scale has been built
ConMarcas ==
    /\ EsMapaDeProduccion
    /\ pc \notin {"read_csv", "filtrar_anio", "cve", "groupby", "mdp",
                  "sin_produccion", "log", "renombrar", "subtitulo",
                  "ordenar", "min_max", "linspace", "error"}

\* the measure values are a non-empty set of strictly positive numbers
Positivos ==
    /\ df # <<>>
    /\ \A j \in 1..Len(df) : df[j].Volumenproduccion > 0

MenorVolumen ==
    CHOOSE v \in {df[j].Volumenproduccion : j \in 1..Len(df)} :
        \A j \in 1..Len(df) : v <= df[j].Volumenproduccion

MayorVolumen ==
    CHOOSE v \in {df[j].Volumenproduccion : j \in 1..Len(df)} :
        \A j \in 1..Len(df) : v >= df[j].Volumenproduccion

\* C3: for a non-empty set of strictly positive values the scale has 11
\* ticks, evenly spaced, the first log10 of the least value and the last
\* log10 of the greatest; they do not decrease and lie in the domain.
\* (The bounds are compared with the volumes while the labels are computed
\* and when they are complete; no later statement assigns min_val, max_val,
\* marcas or df.)
C3_MarcasEnElDominio ==
    ConMarcas /\ Positivos =>
        /\ Len(marcas) = 11
        /\ pc \in {"for_marcas", "etiqueta", "geojson"} =>
            /\ min_val = Log10(MenorVolumen)
            /\ max_val = Log10(MayorVolumen)
        /\ marcas[1] = min_val
        /\ marcas[11] = max_val
        /\ \A i \in 1..11 :
            /\ IsFin(marcas[i])
            /\ min_val.v <= marcas[i].v
            /\ marcas[i].v <= max_val.v
        /\ \A i \in 1..10 :
            /\ marcas[i].v <= marcas[i + 1].v
            /\ marcas[i + 1].v - marcas[i].v = marcas[2].v - marcas[1].v

\* a scale over two different positive values
C3_Testigo ==
    /\ ConMarcas
    /\ Positivos
    /\ Len(marcas) = 11
    /\ IsFin(min_val) /\ IsFin(max_val)
    /\ min_val.v < max_val.v

\* lab abbreviates the linear value v (in tenths) by the rule of its
\* magnitude: millions with one decimal and "M", thousands as an integer
\* and "k", or the integer itself, each rounded to the nearest
ReglaDeEtiqueta(v, lab) ==
    IF v >= 1000000 * Decimas
    THEN \E n \in {v \div 1000000, v \div 1000000 + 1} :
            /\ 2 * (v - n * 1000000) <= 1000000
            /\ 2 * (n * 1000000 - v) <= 1000000
            /\ lab = Comas(n \div 10) \o "." \o ToString(n % 10) \o "M"
    ELSE IF v >= 1000 * Decimas
    THEN \E n \in {v \div 10000, v \div 10000 + 1} :
            /\ 2 * (v - n * 10000) <= 10000
            /\ 2 * (n * 10000 - v) <= 10000
            /\ lab = Comas(n) \o "k"
    ELSE \E n \in {v \div 10, v \div 10 + 1} :
            /\ 2 * (v - n * 10) <= 10
            /\ 2 * (n * 10 - v) <= 10
            /\ lab = Comas(n)

\* C4: the label appended for a tick follows, from the linear value of
\* that tick, the one rule of its magnitude (999 gives "999", 1500 gives
\* "2k", 2500000 gives "2.5M"); the labels are one per tick, in tick order.
C4_EtiquetaPorMagnitud ==
    /\ pc \in {"for_marcas", "etiqueta"} => Len(etiquetas) = i_marca
    /\ pc = "for_marcas" /\ i_marca > 0 /\ IsFin(valor_original) =>
        /\ ReglaDeEtiqueta(valor_original.v, etiquetas[i_marca])
        /\ valor_original.v = 9990 => etiquetas[i_marca] = "999"
        /\ valor_original.v = 15000 => etiquetas[i_marca] = "2k"
        /\ valor_original.v = 25000000 => etiquetas[i_marca] = "2.5M"
    /\ pc = "for_marcas" /\ i_marca > 0 /\ marcas # <<>> =>
        valor_original = Pow10(marcas[i_marca])
    /\ ConMarcas /\ pc \notin {"for_marcas", "etiqueta"} =>
        Len(etiquetas) = 11 /\ Len(marcas) = 11

\* a scale whose labels use the three rules
C4_Testigo ==
    /\ ConMarcas
    /\ pc = "geojson"
    /\ Len(etiquetas) = 11
    /\ \A i \in 1..11 : IsFin(marcas[i])
    /\ Pow10(marcas[1]).v < 1000 * Decimas
    /\ \E i \in 1..11 : /\ Pow10(marcas[i]).v >= 1000 * Decimas
                        /\ Pow10(marcas[i]).v < 1000000 * Decimas
    /\ Pow10(marcas[11]).v >= 1000000 * Decimas
    /\ etiquetas[1] = "8"
    /\ etiquetas[11] = "2.0M"

\* the aggregation has just run: df holds its records, df_antes its rows
Agrupado == pc \in {"mdp", "sin_produccion", "valor_dummy", "nombre"}

\* the column the function groups by
ColumnaClave ==
    CASE fn = "plot_mapa_estatal" -> "Nomestado"
      [] fn = "plot_mapa_municipal" -> "CVE"
      [] OTHER -> "PAIS_O_D"

\* the numeric columns the function reduces
ColumnasNumericas ==
    (IF fn \in DeExportaciones THEN {"ANIO", "CANTIDAD", "VAL_MNX"}
     ELSE {"Anio", "Volumenproduccion", "Valorproduccion"}) \ {ausente}

\* the rows of df_antes that share the key k
FilasDe(k) == {i \in 1..Len(df_antes) : df_antes[i][ColumnaClave] = k}

RECURSIVE SumaDe(_, _)
\* the sum of column c over the rows of df_antes numbered in S
SumaDe(S, c) ==
    IF S = {} THEN 0
    ELSE LET i == CHOOSE i \in S : TRUE
         IN  df_antes[i][c] + SumaDe(S \ {i}, c)

\* C5: after the aggregation there is exactly one record per distinct key
\* of the rows that were grouped: no key is missing, none appears twice and
\* none appears that the rows did not hold.
C5_UnRegistroPorClave ==
    Agrupado =>
        /\ \A i, j \in 1..Len(df) : df[i].idx = df[j].idx => i = j
        /\ {df[i].idx : i \in 1..Len(df)}
            = {df_antes[i][ColumnaClave] : i \in 1..Len(df_antes)}

\* three rows of two keys have become two records
C5_Testigo ==
    /\ Agrupado
    /\ Len(df_antes) = 3
    /\ Len(df) = 2

\* C6: in max mode each numeric column of a record is the maximum of that
\* column over the rows of its key, column by column (a key whose CANTIDAD
\* are 5, 12, 3 gets 12); in sum mode it is the sum over those rows.
C6_MaximoOSumaPorColumna ==
    Agrupado =>
        \A n \in 1..Len(df) : \A c \in ColumnasNumericas :
            IF fn \in DeExportaciones
            THEN /\ \E i \in FilasDe(df[n].idx) : df_antes[i][c] = df[n][c]
                 /\ \A i \in FilasDe(df[n].idx) : df_antes[i][c] <= df[n][c]
            ELSE df[n][c] = SumaDe(FilasDe(df[n].idx), c)

\* a destination with CANTIDAD 5, 12, 3 got 12, and its VAL_MNX from
\* another row than the one of the 12
C6_Testigo ==
    /\ fn = "mapa_exportaciones"
    /\ pc = "valor_dummy"
    /\ Len(df_antes) = 3
    /\ \A i \in 1..3 : df_antes[i].PAIS_O_D = "USA"
    /\ Column(df_antes, "CANTIDAD") = <<5, 12, 3>>
    /\ Column(df_antes, "VAL_MNX") = <<7, 4, 4>>
    /\ Len(df) = 1
    /\ df[1].CANTIDAD = 12
    /\ df[1].VAL_MNX = 7

\* the records of df as rows again: the index back as the column by
ComoFilas(by) ==
    [i \in 1..Len(df) |->
        [c \in ColumnasNumericas \cup {by} |->
            IF c = by THEN df[i].idx ELSE df[i][c]]]

\* C7: aggregating the aggregated records again, by the same key and in
\* sum mode, yields the same records: same keys, same values, same order.
C7_SumaIdempotente ==
    /\ pc = "mdp" => AgruparEstatal(ComoFilas("Nomestado")) = df
    /\ pc = "sin_produccion" => AgruparMunicipal(ComoFilas("CVE")) = df

\* records that came from merging rows, about to be used
C7_Testigo ==
    /\ pc \in {"mdp", "sin_produccion"}
    /\ Len(df_antes) = 3
    /\ Len(df) = 2
    /\ \E n \in 1..2 : df[n].Volumenproduccion = 2000008

\* C8: in the export functions a row without PAIS_O_D gets "TOTAL" before
\* the grouping and is not dropped, the rows with a destination keep it,
\* and the records hold one keyed "TOTAL" whenever a row had none.
C8_TotalPorFaltante ==
    /\ fn \in DeExportaciones /\ pc = "groupby" =>
        /\ Len(df) = Len(df_antes)
        /\ \A i \in 1..Len(df) :
            /\ df[i].PAIS_O_D
                = IF df_antes[i].PAIS_O_D = NULL THEN "TOTAL"
                  ELSE df_antes[i].PAIS_O_D
            /\ DOMAIN df[i] = DOMAIN df_antes[i]
            /\ \A c \in DOMAIN df[i] \ {"PAIS_O_D"} :
                df[i][c] = df_antes[i][c]
    /\ fn \in DeExportaciones /\ Agrupado =>
        /\ \A i \in 1..Len(df_antes) : df_antes[i].PAIS_O_D # NULL
        /\ \A i \in 1..Len(df_antes) : EnIndice(df, df_antes[i].PAIS_O_D)

\* the totals of a year with exports to one country: the row without
\* destination is the record "TOTAL"
C8_Testigo ==
    /\ fn \in DeExportaciones
    /\ Agrupado
    /\ Len(df_antes) = 2
    /\ df_antes[1].PAIS_O_D = "USA"
    /\ df_antes[2].PAIS_O_D = "TOTAL"
    /\ EnIndice(df, "TOTAL")
    /\ Loc(df, "TOTAL", "CANTIDAD") = df_antes[2].CANTIDAD

\* the greater of two widths
Mayor(a, b) == IF a >= b THEN a ELSE b

\* C9: the composite of plot_mapa_estatal is as wide as the wider of its
\* two images and as high as both together; the first is pasted at (0, 0)
\* and the second at (0, height of the first); 1280x720 and 1280x560
\* give 1280x1280.
C9_ApiladoVertical ==
    result # None =>
        /\ result.width = Mayor(image1.width, image2.width)
        /\ result.height = image1.height + image2.height
        /\ Len(result.pegadas) = 2
        /\ result.pegadas[1] = [im |-> image1, box |-> <<0, 0>>]
        /\ result.pegadas[2] = [im |-> image2, box |-> <<0, image1.height>>]
        /\ image1.width = 1280 /\ image1.height = 720
        /\ image2.width = 1280 /\ image2.height = 560
        /\ result.width = 1280 /\ result.height = 1280

\* the composite has been saved
C9_Testigo ==
    /\ fn = "plot_mapa_estatal"
    /\ pc = "remove_0"
    /\ result # None
    /\ Ruta("entidades") \in DOMAIN fs
    /\ fs[Ruta("entidades")] = result

\* C10: when plot_mapa_estatal has ended, normally or by an error, neither
\* ./0.png nor ./1.png exists.
C10_SinIntermedios ==
    fn = "plot_mapa_estatal" /\ pc \in {"done", "error"} =>
        "./0.png" \notin DOMAIN fs /\ "./1.png" \notin DOMAIN fs

\* C11: when plot_mapa_estatal runs for two years at the same time, the
\* image each call saves is composed of the two layers that call rendered,
\* and no call loses a file it still has to open or remove.
C11_SoloCapasPropias ==
    \A a \in DOMAIN trabajadores :
        /\ trabajadores[a].result # None =>
            \A k \in 1..2 : trabajadores[a].result.pegadas[k].im.anio = a
        /\ RutaDe(a, "entidades") \in DOMAIN fs =>
            \A k \in 1..2 : fs[RutaDe(a, "entidades")].pegadas[k].im.anio = a
        /\ trabajadores[a].excepcion # "FileNotFoundError"

\* C12: when every value of the joined layer is None the call has ended
\* with EmptyDomainError: the layer is not handed to the renderer and no
\* image is written.
C12_DominioVacioFalla ==
    /\ EsMapaDeProduccion
    /\ valores # <<>>
    /\ \A i \in 1..Len(valores) : valores[i] = None
    => /\ pc = "error"
       /\ excepcion = "EmptyDomainError"
       /\ fig = <<>>
       /\ DOMAIN fs = {}

\* C13 (as stated): a file that lacks a column the function reads ends the
\* call with SchemaError, before any image is written.
C13_ColumnaAusenteFalla ==
    ausente # NULL /\ pc = "error" =>
        /\ excepcion = "SchemaError"
        /\ DOMAIN fs = {}

\* C13: a file that lacks a column the function reads never completes the
\* call: it ends with KeyError at the first statement that reads the column,
\* and no trace has been drawn and no image written by then.
C13_ColumnaAusenteKeyError ==
    ausente # NULL =>
        /\ pc # "done"
        /\ pc = "error" => excepcion = "KeyError"
        /\ fig = <<>>
        /\ DOMAIN fs = {}

\* a call has ended on the missing grouping key or measure
C13_Testigo ==
    /\ pc = "error"
    /\ excepcion = "KeyError"
    /\ ausente \in {"Nomestado", "Volumenproduccion", "PAIS_O_D", "CANTIDAD"}

\* the sum of column c over the records of df other than the one of "TOTAL"
SumaDePaises(c) ==
    LET DePais(r) == r.idx # "TOTAL"
    IN  SeqSum(Column(SelectSeq(df, DePais), c))

\* C14: once the export rows of a year are aggregated, the values of the
\* countries add up, for each measure, to the value of the key "TOTAL".
C14_TotalEsLaSuma ==
    /\ fn \in DeExportaciones
    /\ ausente = NULL
    /\ pc \in {"valor_dummy", "nombre"}
    /\ \E i \in 1..Len(df) : df[i].idx = "TOTAL"
    => \A c \in {"CANTIDAD", "VAL_MNX"} :
           SumaDePaises(c) = Loc(df, "TOTAL", c)

\* the records, as the source keyed them, that feature j of the catalogue of
\* states is matched with
FuentesDe(j) ==
    LET g == geojson[j].NOMGEO
    IN  {i \in 1..Len(df_antes) :
            \/ df_antes[i].idx = g
            \/ g = "Estado de México" /\ df_antes[i].idx = "México"}

\* C15: when the join loop of the map of states has ended, and its values
\* are about to be handed to go.Choropleth, the record the source keys
\* "México" is joined to the feature named "Estado de México"; apart from
\* that a feature is joined to the records whose source key is exactly its
\* name, and to None when there is none.
C15_MexicoYCoincidenciaExacta ==
    fn = "plot_mapa_estatal" /\ pc = "trazar_mapa" =>
        \A j \in 1..Len(geojson) :
            LET logs == {df_antes[i].log : i \in FuentesDe(j)}
            IN  IF FuentesDe(j) = {} THEN valores[j] = None
                ELSE \/ Cardinality(FuentesDe(j)) = 1 /\ valores[j] \in logs
                     \/ /\ Cardinality(FuentesDe(j)) > 1
                        /\ valores[j].k = "Series"
                        /\ {valores[j].s[k] : k \in 1..Len(valores[j].s)} = logs

\* the record of "México" has been joined to the feature "Estado de México",
\* next to a feature that is matched by its own name and one without record
C15_Testigo ==
    /\ fn = "plot_mapa_estatal" /\ pc = "trazar_mapa"
    /\ Len(df_antes) = 2
    /\ \E i \in 1..2 : df_antes[i].idx = "México"
    /\ \E i \in 1..2 : df_antes[i].idx = "Jalisco"
    /\ Len(geojson) = 3
    /\ \E j \in 1..3 : geojson[j].NOMGEO = "Estado de México" /\ valores[j] # None
    /\ \E j \in 1..3 : geojson[j].NOMGEO = "Jalisco" /\ valores[j] # None
    /\ \E j \in 1..3 : geojson[j].NOMGEO = "Colima" /\ valores[j] = None

\* C16: in both production maps every volume np.log10 is applied to is
\* strictly positive, and the lower bound of the scale is a finite number.
C16_SoloPositivos ==
    EsMapaDeProduccion =>
        /\ pc = "log" /\ ConColumnas =>
            \A i \in 1..Len(df) : df[i].Volumenproduccion > 0
        /\ pc = "linspace" => IsFin(min_val)

\* np.linspace has returned and the labels are being, or have been, computed
EscalaHecha ==
    EsMapaDeProduccion /\ pc \in {"for_marcas", "etiqueta", "geojson"}

\* x < y on floats: false when either is nan
Menor(x, y) == NotNaN(x) /\ NotNaN(y) /\ x # y /\ FloatLeq(x, y)

\* C17 (as stated): the ticks of every scale are strictly increasing, here
\* for the scales over strictly positive volumes only.
C17_MarcasCrecientes ==
    EscalaHecha /\ Positivos =>
        \A i, j \in 1..Len(marcas) : i < j => Menor(marcas[i], marcas[j])

\* C17: the ticks of a scale never decrease: no tick is less than an
\* earlier one; they are strictly increasing when the bounds of the domain
\* are finite and differ, and all equal when the bounds are finite and equal.
\* (Between finite ticks the order of each tick and the next gives that of
\* every pair.)
C17_MarcasNoDecrecen ==
    EscalaHecha =>
        IF IsFin(min_val) /\ IsFin(max_val)
        THEN \A i \in 1..(Len(marcas) - 1) :
                /\ IsFin(marcas[i]) /\ IsFin(marcas[i + 1])
                /\ IF min_val.v < max_val.v
                   THEN marcas[i].v < marcas[i + 1].v
                   ELSE marcas[i].v = marcas[i + 1].v
        ELSE \A i \in 1..Len(marcas) : \A j \in (i + 1)..Len(marcas) :
                ~Menor(marcas[j], marcas[i])

\* a scale over two different volumes: each tick is above the one before
C17_Testigo ==
    /\ EscalaHecha
    /\ IsFin(min_val) /\ IsFin(max_val)
    /\ min_val.v < max_val.v
    /\ Len(marcas) = NumMarcas
    /\ \A i \in 1..(NumMarcas - 1) : Menor(marcas[i], marcas[i + 1])

\* C18: when the least and the greatest log value are the same number the
\* scale is built all the same: 11 ticks, each that number, and 11 labels,
\* all alike.
C18_EscalaDegenerada ==
    /\ EsMapaDeProduccion
    /\ pc \in {"for_marcas", "etiqueta", "geojson"}
    /\ IsFin(min_val)
    /\ min_val = max_val
    => /\ Len(marcas) = 11
       /\ \A i \in 1..11 : marcas[i] = min_val
       /\ \A i \in 1..Len(etiquetas) : etiquetas[i] = etiquetas[1]
       /\ pc = "geojson" => Len(etiquetas) = 11

\* the scale of a single aggregated record is complete
C18_Testigo ==
    /\ EsMapaDeProduccion
    /\ pc = "geojson"
    /\ Len(df) = 1
    /\ IsFin(min_val)
    /\ min_val = max_val
    /\ Len(marcas) = 11
    /\ Len(etiquetas) = 11

\* the stage of the pipeline that statement p of a production map belongs
\* to, numbered in the order the source runs them: 1 the aggregation, 2 the
\* scale, 3 the join, 4 the traces, 5 write_image, 6 the composite, 7 ended
Etapa(p) ==
    CASE p \in {"read_csv", "filtrar_anio", "cve", "groupby", "mdp",
                "sin_produccion", "log", "renombrar", "subtitulo", "ordenar"} -> 1
      [] p \in {"min_max", "linspace", "for_marcas", "etiqueta"} -> 2
      [] p \in {"geojson", "unir"} -> 3
      [] p \in {"trazar_mapa", "geojson_borde", "borde", "trazar_borde"} -> 4
      [] p \in {"write_0", "write_1", "write_municipios"} -> 5
      [] p \in {"open_0", "open_1", "componer", "save", "remove_0", "remove_1"} -> 6
      [] OTHER -> 7

\* the same stages numbered with the join before the scale
EtapaJoinPrimero(p) ==
    CASE Etapa(p) = 2 -> 3
      [] Etapa(p) = 3 -> 2
      [] OTHER -> Etapa(p)

\* C19 (as stated): the stages run in the order aggregation, join, scale,
\* traces, write_image, composite: no step goes back to an earlier stage.
C19_JoinAntesDeEscala ==
    [][EsMapaDeProduccion /\ pc' # "error" =>
        EtapaJoinPrimero(pc) <= EtapaJoinPrimero(pc')]_vars

\* C19: the stages run in the order aggregation, scale, join, traces,
\* write_image, composite: a step stays in its stage, moves to the next
\* one or ends the call, so no stage starts before the one before it has
\* finished; the scale is complete when the join starts, and the join has
\* not started while the scale is computed.
C19_EscalaAntesDeJoin ==
    /\ [][EsMapaDeProduccion /\ pc' # "error" =>
            /\ Etapa(pc) <= Etapa(pc')
            /\ Etapa(pc') <= Etapa(pc) + 1 \/ pc' = "done"]_vars
    /\ [](EsMapaDeProduccion /\ Etapa(pc) = 2 =>
            /\ geojson = <<>>
            /\ ubicaciones = <<>>
            /\ valores = <<>>)
    /\ [](EsMapaDeProduccion /\ Etapa(pc) = 3 =>
            /\ Len(marcas) = NumMarcas
            /\ Len(etiquetas) = NumMarcas)
    /\ [](EsMapaDeProduccion /\ Etapa(pc) \in 4..6 =>
            Len(valores) = Len(geojson))

\* a call of plot_mapa_estatal has gone through every stage
C19_Testigo ==
    /\ fn = "plot_mapa_estatal"
    /\ pc = "done"
    /\ Len(marcas) = NumMarcas
    /\ geojson # <<>>
    /\ Len(valores) = Len(geojson)
    /\ fig # <<>>
    /\ RutaDe(anio, "entidades") \in DOMAIN fs

\* C20: the fill trace of a production map carries, per feature, None where
\* the join gave None and otherwise the log10 of the volume of the one
\* aggregated record of that feature; its zmin, zmax, tickvals and ticktext
\* are min_val, max_val, the ticks and the labels of the scale.
C20_TrazaDeRelleno ==
    EsMapaDeProduccion /\ fig # <<>> /\ fig[1].tipo = "Choropleth" =>
        LET t == fig[1]
        IN  /\ t.showscale
            /\ t.zmin = min_val
            /\ t.zmax = max_val
            /\ t.tickvals = marcas
            /\ t.ticktext = etiquetas
            /\ Len(t.z) = Len(valores)
            /\ \A j \in 1..Len(t.z) :
                IF valores[j] = None THEN t.z[j] = None
                ELSE \E i \in 1..Len(df) :
                        /\ df[i].idx = t.locations[j]
                        /\ \A k \in 1..Len(df) : df[k].idx = df[i].idx => k = i
                        /\ t.z[j] = Log10(df[i].Volumenproduccion)

\* C21: the outline layer of plot_mapa_municipal, as handed to the figure,
\* has one location and one value per feature of the catalogue of states,
\* in the order of the catalogue; every value is 1, whatever the records
\* of production hold.
C21_BordeConstante ==
    fn = "plot_mapa_municipal" /\ pc = "write_municipios" =>
        /\ Len(ubicaciones_borde) = Len(geojson_borde)
        /\ Len(valores_borde) = Len(geojson_borde)
        /\ \A i \in 1..Len(geojson_borde) :
            /\ ubicaciones_borde[i] = geojson_borde[i].NOMGEO
            /\ valores_borde[i] = 1
        /\ Len(fig) = 2
        /\ fig[2].tipo = "Choropleth"
        /\ fig[2].geojson = geojson_borde
        /\ fig[2].locations = ubicaciones_borde
        /\ fig[2].z = valores_borde
        /\ ~fig[2].showscale

\* the outlines of two different states over a fill layer that has a
\* municipality with production and one without
C21_Testigo ==
    /\ fn = "plot_mapa_municipal"
    /\ pc = "write_municipios"
    /\ Len(geojson_borde) = 2
    /\ geojson_borde[1] # geojson_borde[2]
    /\ fig[2].z = <<1, 1>>
    /\ Len(df) = 2
    /\ \E j \in 1..Len(valores) : valores[j] = None
    /\ \E j \in 1..Len(valores) : valores[j] # None

\* v is a number between lo and hi
EnDominio(v, lo, hi) == NotNaN(v) /\ FloatLeq(lo, v) /\ FloatLeq(v, hi)

\* C22: in the fill trace of a production map every value that is not None
\* lies between the zmin and the zmax of the same trace (each member of
\* it, when the value is a Series); so does the log of every aggregated
\* record, whether a feature of the catalogue matches it or not.
C22_ValoresEnElDominio ==
    EsMapaDeProduccion /\ pc \in {"write_0", "geojson_borde"} =>
        LET t == fig[1]
        IN  /\ \A j \in 1..Len(t.z) :
                t.z[j] # None =>
                    IF t.z[j].k = "Series"
                    THEN \A k \in 1..Len(t.z[j].s) :
                            EnDominio(t.z[j].s[k], t.zmin, t.zmax)
                    ELSE EnDominio(t.z[j], t.zmin, t.zmax)
            /\ \A i \in 1..Len(df) : EnDominio(df[i].log, t.zmin, t.zmax)

\* a trace with a value inside a domain that is not a single point, a None,
\* and a record that no feature of the catalogue matches
C22_Testigo ==
    /\ EsMapaDeProduccion
    /\ pc \in {"write_0", "geojson_borde"}
    /\ IsFin(fig[1].zmin) /\ IsFin(fig[1].zmax)
    /\ fig[1].zmin.v < fig[1].zmax.v
    /\ \E j \in 1..Len(fig[1].z) : fig[1].z[j] = None
    /\ \E j \in 1..Len(fig[1].z) : fig[1].z[j] # None /\ IsFin(fig[1].z[j])
    /\ \E i \in 1..Len(df) :
            \A j \in 1..Len(fig[1].locations) : fig[1].locations[j] # df[i].idx

\* C23: in plot_mapa_estatal, from the renaming of the index to the join,
\* no two records of df have the same key, and the join gave every feature
\* None or a single value, never a Series.
C23_UnaClavePorRegistro ==
    fn = "plot_mapa_estatal" =>
        /\ pc \in {"subtitulo", "ordenar", "unir", "trazar_mapa"} =>
            \A a, b \in 1..Len(df) : df[a].idx = df[b].idx => a = b
        /\ pc = "trazar_mapa" =>
            \A j \in 1..Len(valores) : valores[j].k # "Series"

\* C24: in top_exportaciones, after the descending sort the record of
\* "TOTAL" is the first one, so the row df.iloc[1:16] leaves out is that
\* of "TOTAL": the rows kept are destinations only, in descending order of
\* quantity.
C24_TotalPrimero ==
    fn = "top_exportaciones" =>
        /\ pc = "perc" /\ EnIndice(df, "TOTAL") => df[1].idx = "TOTAL"
        /\ pc = "write_top" =>
            /\ \A i \in 1..Len(df) : df[i].idx # "TOTAL"
            /\ \A i \in 1..(Len(df) - 1) :
                    df[i].CANTIDAD[1] >= df[i + 1].CANTIDAD[1]

====
